---- MODULE Spec2Model ----
(***************************************************************************)
(* Model of enum.py: the metaclass _meta (iteration, indexed lookup,       *)
(* containment, length over a class used as an enumeration) and the base   *)
(* class _base (members(), name()), together with the example subclass     *)
(* Color of the usage section and its name() override.                     *)
(*                                                                         *)
(* The state is one enumeration class: its name, its attribute table       *)
(* (cls.__dict__, in insertion order as CPython 3.7+ keeps it), and the    *)
(* outcome of the operation in progress, which the caller takes (Return)   *)
(* before it starts the next one: the module is single-threaded.           *)
(* Strings are sequences of one-character strings, so that str.replace,    *)
(* str.title, str.format and string comparison are computed, not assumed.  *)
(* Python values are tagged records; member values and arguments range     *)
(* over ints and strs (hashable, totally ordered within one type) and      *)
(* callables.                                                              *)
(***************************************************************************)
EXTENDS Integers, Sequences, FiniteSets, TLC

VARIABLES tname, attrs, muts, last

vars == <<tname, attrs, muts, last>>

\* Bound on the number of post-definition attribute assignments/deletions.
MaxMut == 2

\* Bound standing for the interpreter's recursion limit.
MaxRecursion == 3

(***************************************************************************)
(* Characters: the printable ASCII range, in code-point order (the double  *)
(* quote, backslash and backtick, which no name here uses, are spelled out) *)
(***************************************************************************)
Ascii ==
  <<" ", "!", "DQUOTE", "#", "$", "%", "&", "'", "(", ")", "*", "+", ",", "-", ".", "/",
     "0", "1", "2", "3", "4", "5", "6", "7", "8", "9", ":", ";", "<", "=", ">", "?", "@",
     "A", "B", "C", "D", "E", "F", "G", "H", "I", "J", "K", "L", "M", "N", "O", "P", "Q", "R", "S", "T", "U", "V", "W", "X", "Y", "Z", "[", "BACKSLASH", "]", "^", "_", "BACKTICK",
     "a", "b", "c", "d", "e", "f", "g", "h", "i", "j", "k", "l", "m", "n", "o", "p", "q", "r", "s", "t", "u", "v", "w", "x", "y", "z", "{", "|", "}", "~">>

Ord(c) == 31 + (CHOOSE i \in 1..Len(Ascii) : Ascii[i] = c)

Chr(n) == Ascii[n - 31]

IsUpper(c) == Ord(c) \in 65..90

IsLower(c) == Ord(c) \in 97..122

IsCased(c) == IsUpper(c) \/ IsLower(c)

Upper(c) == IF IsLower(c) THEN Chr(Ord(c) - 32) ELSE c

Lower(c) == IF IsUpper(c) THEN Chr(Ord(c) + 32) ELSE c

\* k.replace('_', ' ')
Replace(s) == [i \in 1..Len(s) |-> IF s[i] = "_" THEN " " ELSE s[i]]

\* str.title(): a cased character is upper-cased when the character before
\* it is not cased, and lower-cased otherwise; other characters are kept.
RECURSIVE TitleFrom(_, _, _)
TitleFrom(s, i, prevCased) ==
  IF i > Len(s) THEN <<>>
  ELSE IF IsCased(s[i])
       THEN <<IF prevCased THEN Lower(s[i]) ELSE Upper(s[i])>>
            \o TitleFrom(s, i + 1, TRUE)
       ELSE <<s[i]>> \o TitleFrom(s, i + 1, FALSE)

Title(s) == TitleFrom(s, 1, FALSE)

\* Decimal digits of a natural number, as str.format writes them.
RECURSIVE Dec(_)
Dec(n) ==
  IF n < 10 THEN <<Chr(48 + n)>>
  ELSE Dec(n \div 10) \o <<Chr(48 + (n % 10))>>

\* Lexicographic order of two strings by code point (str.__lt__).
RECURSIVE StrLess(_, _)
StrLess(a, b) ==
  IF Len(b) = 0 THEN FALSE
  ELSE IF Len(a) = 0 THEN TRUE
  ELSE IF Ord(a[1]) # Ord(b[1]) THEN Ord(a[1]) < Ord(b[1])
  ELSE StrLess(Tail(a), Tail(b))

(***************************************************************************)
(* Python values.                                                          *)
(***************************************************************************)
None == [t |-> "none", i |-> 0, s |-> <<>>, l |-> <<>>]

PyInt(n) == [t |-> "int", i |-> n, s |-> <<>>, l |-> <<>>]

PyStr(s) == [t |-> "str", i |-> 0, s |-> s, l |-> <<>>]

PyBool(b) == [t |-> "bool", i |-> IF b THEN 1 ELSE 0, s |-> <<>>, l |-> <<>>]

PyList(l) == [t |-> "list", i |-> 0, s |-> <<>>, l |-> l]

\* A callable object (function, classmethod, lambda), told apart by n.
PyFn(n) == [t |-> "fn", i |-> n, s |-> <<>>, l |-> <<>>]

\* '{}'.format(v)
Format(v) ==
  IF v.t = "str" THEN v.s
  ELSE IF v.i < 0 THEN <<"-">> \o Dec(0 - v.i)
  ELSE Dec(v.i)

\* v < w for two values (int.__lt__, str.__lt__)
Less(v, w) == IF v.t = "int" THEN v.i < w.i ELSE StrLess(v.s, w.s)

\* Outcome of an operation: a returned value or a raised exception.
Ret(v) == [kind |-> "return", val |-> v]

Raise(exc, msg) == [kind |-> exc, val |-> msg]

(***************************************************************************)
(* The example classes.                                                    *)
(***************************************************************************)
ColorNameFn == PyFn(1)

CounterpartFn == PyFn(2)

UserFn == PyFn(3)

ColorAttrs ==
  << [k |-> <<"_", "_", "m", "o", "d", "u", "l", "e", "_", "_">>, v |-> PyStr(<<"_", "_", "m", "a", "i", "n", "_", "_">>)],
     [k |-> <<"_", "_", "d", "o", "c", "_", "_">>, v |-> PyStr(<<"E", "n", "u", "m", " ", "c", "l", "a", "s", "s", " ", "e", "x", "a", "m", "p", "l", "e">>)],
     [k |-> <<"B", "L", "A", "C", "K">>, v |-> PyInt(0)],
     [k |-> <<"W", "H", "I", "T", "E">>, v |-> PyInt(10)],
     [k |-> <<"D", "E", "F", "A", "U", "L", "T">>, v |-> PyInt(-1)],
     [k |-> <<"R", "E", "D">>, v |-> PyInt(1)],
     [k |-> <<"G", "R", "E", "E", "N">>, v |-> PyInt(2)],
     [k |-> <<"B", "L", "U", "E">>, v |-> PyInt(3)],
     [k |-> <<"N", "I", "C", "E", "_", "O", "N", "E">>, v |-> PyInt(4)],
     [k |-> <<"n", "a", "m", "e">>, v |-> ColorNameFn],
     [k |-> <<"c", "o", "u", "n", "t", "e", "r", "p", "a", "r", "t">>, v |-> CounterpartFn] >>

\* A second enumeration without a name() override, with string values; one
\* member's value is the declaration name of the other.
AnEnumAttrs ==
  << [k |-> <<"_", "_", "m", "o", "d", "u", "l", "e", "_", "_">>, v |-> PyStr(<<"_", "_", "m", "a", "i", "n", "_", "_">>)],
     [k |-> <<"_", "_", "d", "o", "c", "_", "_">>, v |-> None],
     [k |-> <<"A", "N", "_", "O", "R", "D", "I", "N", "A", "R", "Y", "_", "M", "E", "M", "B", "E", "R">>, v |-> PyStr(<<"x", "2", "y">>)],
     [k |-> <<"x", "2", "y">>, v |-> PyStr(<<"A", "B">>)] >>

TypeNames == {<<"C", "o", "l", "o", "r">>, <<"A", "n", "E", "n", "u", "m">>}

ClassBody(tn) == IF tn = <<"C", "o", "l", "o", "r">> THEN ColorAttrs ELSE AnEnumAttrs

\* Names and values used by post-definition assignments and deletions.  The
\* attributes that Color's own methods read (BLACK, WHITE, DEFAULT) and its
\* underscore attributes are left in place.
SetNames == {<<"Y", "E", "L", "L", "O", "W">>, <<"R", "E", "D">>}

SetValues == {PyInt(5), PyInt(1), PyInt(0), PyStr(<<"R", "E", "D">>), PyStr(<<"W", "H", "I", "T", "E">>), UserFn}

DelNames == {<<"N", "I", "C", "E", "_", "O", "N", "E">>, <<"Y", "E", "L", "L", "O", "W">>, <<"R", "E", "D">>, <<"n", "a", "m", "e">>, <<"A", "N", "_", "O", "R", "D", "I", "N", "A", "R", "Y", "_", "M", "E", "M", "B", "E", "R">>}

\* Arguments passed to the lookups.
Args ==
  {PyInt(-1), PyInt(0), PyInt(1), PyInt(2), PyInt(5), PyInt(10), PyInt(9999)} \cup
  {PyStr(<<>>), PyStr(<<"R", "E", "D">>), PyStr(<<"G", "R", "E", "E", "N">>), PyStr(<<"B", "L", "A", "C", "K">>), PyStr(<<"W", "H", "I", "T", "E">>),
   PyStr(<<"Y", "E", "L", "L", "O", "W">>), PyStr(<<"N", "I", "C", "E", "_", "O", "N", "E">>), PyStr(<<"B", "R", "O", "W", "N">>), PyStr(<<"n", "a", "m", "e">>),
   PyStr(<<"_", "_", "d", "o", "c", "_", "_">>), PyStr(<<"A", "N", "_", "O", "R", "D", "I", "N", "A", "R", "Y", "_", "M", "E", "M", "B", "E", "R">>), PyStr(<<"x", "2", "y">>), PyStr(<<"A", "B">>),
   PyStr(<<"1">>)}

(***************************************************************************)
(* Attribute table helpers.                                                *)
(***************************************************************************)
\* Position of attribute k in table a, 0 when absent.
Index(a, k) ==
  IF \E i \in 1..Len(a) : a[i].k = k
  THEN CHOOSE i \in 1..Len(a) : a[i].k = k
  ELSE 0

\* callable(obj)
Callable(v) == v.t = "fn"

\* k.startswith("_")
StartsWithUnderscore(k) == Len(k) > 0 /\ k[1] = "_"

\* Variant: the callable test left out of the filter.
IsMemberEntryAnyValue(e) == ~StartsWithUnderscore(e.k)

IsMemberEntry(e) == ~StartsWithUnderscore(e.k) /\ ~Callable(e.v)

\* _base.members(): the entries of cls.__dict__ kept by the filter, in
\* table order.
Members(a) == SelectSeq(a, IsMemberEntry)

(***************************************************************************)
(* _meta: the class-level operations.                                      *)
(***************************************************************************)
\* The message of the AttributeError raised by __getitem__.
AttrMsg(tn, k) ==
  PyStr(<<"t", "y", "p", "e", " ", "o", "b", "j", "e", "c", "t", " ", "'">> \o tn \o <<"'", " ", "h", "a", "s", " ", "n", "o", " ", "a", "t", "t", "r", "i", "b", "u", "t", "e", " ", "'">> \o Format(k) \o <<"'">>)

\* Variant: a missing key yields None (dict.get) instead of raising.
GetItemOrNone(a, tn, k) ==
  LET ms == SelectSeq(a, LAMBDA e : ~StartsWithUnderscore(e.k) /\ ~Callable(e.v))
      i == IF k.t = "str" THEN Index(ms, k.s) ELSE 0
  IN IF i # 0 THEN Ret(ms[i].v) ELSE Ret(None)

\* cls[k]
GetItem(a, tn, k) ==
  LET ms == Members(a)
      i == IF k.t = "str" THEN Index(ms, k.s) ELSE 0
  IN IF i # 0 THEN Ret(ms[i].v)
     ELSE Raise("AttributeError", AttrMsg(tn, k))

\* k in cls
Contains(a, k) ==
  Ret(PyBool(k.t = "str" /\ Index(Members(a), k.s) # 0))

\* Variant: counts every attribute of the class, members or not.
LenOpAllAttrs(a) == Ret(PyInt(Len(a)))

\* len(cls)
LenOp(a) == Ret(PyInt(Len(Members(a))))

\* sorted(): stable insertion of x into an ascending list.
RECURSIVE Insert(_, _)
Insert(x, srt) ==
  IF srt = <<>> THEN <<x>>
  ELSE IF Less(x, Head(srt)) THEN <<x>> \o srt
  ELSE <<Head(srt)>> \o Insert(x, Tail(srt))

\* Variant: the values in table order, unsorted.
SortedAsDeclared(vs) == vs

RECURSIVE Sorted(_)
Sorted(vs) ==
  IF vs = <<>> THEN <<>>
  ELSE Insert(vs[Len(vs)], Sorted(SubSeq(vs, 1, Len(vs) - 1)))

MemberValues(a) == LET ms == Members(a) IN [i \in 1..Len(ms) |-> ms[i].v]

\* Two values of different types are unorderable in Python 3.
Mixed(vs) == \E i, j \in 1..Len(vs) : vs[i].t # vs[j].t

\* iter(cls)
IterOp(a) ==
  LET vs == MemberValues(a)
  IN IF Mixed(vs) THEN Raise("TypeError", None)
     ELSE Ret(PyList(Sorted(vs)))

(***************************************************************************)
(* _base.name and the override Color.name.                                 *)
(***************************************************************************)
\* The for loop of name(): first position from i on whose value equals
\* value, 0 when the loop ends without a match.
\* Variant: the loop keeps going and ends on the last match.
RECURSIVE ScanLast(_, _, _)
ScanLast(ms, value, i) ==
  IF i > Len(ms) THEN 0
  ELSE LET rest == ScanLast(ms, value, i + 1)
       IN IF rest # 0 THEN rest
          ELSE IF ms[i].v = value THEN i ELSE 0

RECURSIVE Scan(_, _, _)
Scan(ms, value, i) ==
  IF i > Len(ms) THEN 0
  ELSE IF ms[i].v = value THEN i
  ELSE Scan(ms, value, i + 1)

RECURSIVE ClsName(_, _, _, _)
RECURSIVE BaseName(_, _, _, _)

\* _base.name(value).  fb counts how often the call chain reaches the keyed
\* fallback cls.name(cls[value]).
BaseName(a, tn, value, depth) ==
  LET ms == Members(a)
      hit == Scan(ms, value, 1)
  IN IF hit # 0
     THEN [out |-> Ret(PyStr(Title(Replace(ms[hit].k)))), fb |-> 0]
     ELSE LET g == GetItem(a, tn, value)
          IN IF g.kind # "return" THEN [out |-> g, fb |-> 1]
             ELSE IF depth >= MaxRecursion
                  THEN [out |-> Raise("RecursionError", None), fb |-> 1]
             ELSE LET r == ClsName(a, tn, g.val, depth + 1)
                  IN [out |-> r.out, fb |-> r.fb + 1]

\* cls.K for an attribute K the class itself holds.
GetAttr(a, k) == a[Index(a, k)].v

\* Variant: the override delegates to cls.name instead of the base name().
ColorNameViaCls(a, tn, v, depth) ==
  IF v = GetAttr(a, <<"B", "L", "A", "C", "K">>)
  THEN [out |-> Ret(PyStr(<<"i", "s", " ", "b", "a", "c", "k", "!">>)), fb |-> 0]
  ELSE IF v = GetAttr(a, <<"W", "H", "I", "T", "E">>)
  THEN [out |-> Ret(PyStr(<<"D", "e", "l", "i", "g", "h", "t">>)), fb |-> 0]
  ELSE IF depth >= MaxRecursion
  THEN [out |-> Raise("RecursionError", None), fb |-> 0]
  ELSE ClsName(a, tn, v, depth + 1)

\* Color.name(v): custom strings for BLACK and WHITE, else the base name().
ColorName(a, tn, v, depth) ==
  IF v = GetAttr(a, <<"B", "L", "A", "C", "K">>)
  THEN [out |-> Ret(PyStr(<<"i", "s", " ", "b", "a", "c", "k", "!">>)), fb |-> 0]
  ELSE IF v = GetAttr(a, <<"W", "H", "I", "T", "E">>)
  THEN [out |-> Ret(PyStr(<<"D", "e", "l", "i", "g", "h", "t">>)), fb |-> 0]
  ELSE BaseName(a, tn, v, depth)

\* cls.name(v): ordinary attribute lookup picks the class's own name when
\* it defines one, else the inherited _base.name.
ClsName(a, tn, v, depth) ==
  IF Index(a, <<"n", "a", "m", "e">>) = 0 THEN BaseName(a, tn, v, depth)
  ELSE IF a[Index(a, <<"n", "a", "m", "e">>)].v = ColorNameFn THEN ColorName(a, tn, v, depth)
  ELSE [out |-> Raise("TypeError", None), fb |-> 0]

\* Color.counterpart(v), for an int v; its last line asks `v + 1 in cls`.
Counterpart(a, v) ==
  IF v = GetAttr(a, <<"D", "E", "F", "A", "U", "L", "T">>) THEN Ret(v)
  ELSE IF v = GetAttr(a, <<"B", "L", "A", "C", "K">>) THEN Ret(GetAttr(a, <<"W", "H", "I", "T", "E">>))
  ELSE IF v = GetAttr(a, <<"W", "H", "I", "T", "E">>) THEN Ret(GetAttr(a, <<"B", "L", "A", "C", "K">>))
  ELSE IF Contains(a, PyInt(v.i + 1)).val = PyBool(TRUE) THEN Ret(PyInt(v.i + 1))
  ELSE Ret(GetAttr(a, <<"D", "E", "F", "A", "U", "L", "T">>))

(***************************************************************************)
(* The state machine.                                                      *)
(***************************************************************************)
\* No operation in progress.
Idle == [op |-> "idle", arg |-> None, arg2 |-> None, out |-> Ret(None), fb |-> 0]

Init ==
  /\ tname \in TypeNames
  /\ attrs = ClassBody(tname)
  /\ muts = 0
  /\ last = Idle

\* setattr(cls, k, v): an existing attribute keeps its place in the table,
\* a new one goes last.
SetAttr(k, v) ==
  /\ last = Idle
  /\ muts < MaxMut
  /\ attrs' = IF Index(attrs, k) # 0
              THEN [attrs EXCEPT ![Index(attrs, k)].v = v]
              ELSE Append(attrs, [k |-> k, v |-> v])
  /\ muts' = muts + 1
  /\ last' = [op |-> "setattr", arg |-> PyStr(k), arg2 |-> v, out |-> Ret(None), fb |-> 0]
  /\ UNCHANGED tname

\* delattr(cls, k)
DelAttr(k) ==
  /\ last = Idle
  /\ muts < MaxMut
  /\ attrs' = SelectSeq(attrs, LAMBDA e : e.k # k)
  /\ muts' = muts + 1
  /\ last' = [op |-> "delattr", arg |-> PyStr(k), arg2 |-> None,
              out |-> IF Index(attrs, k) # 0 THEN Ret(None)
                      ELSE Raise("AttributeError", AttrMsg(tname, PyStr(k))),
              fb |-> 0]
  /\ UNCHANGED tname

\* The read-only operations: none assigns to the class.
Query(op, x, out, fb) ==
  /\ last = Idle
  /\ last' = [op |-> op, arg |-> x, arg2 |-> None, out |-> out, fb |-> fb]
  /\ UNCHANGED <<tname, attrs, muts>>

DoIter == Query("iter", None, IterOp(attrs), 0)

DoLen == Query("len", None, LenOp(attrs), 0)

DoContains(x) == Query("contains", x, Contains(attrs, x), 0)

DoGetItem(x) == Query("getitem", x, GetItem(attrs, tname, x), 0)

DoName(x) ==
  LET r == ClsName(attrs, tname, x, 0)
  IN Query("name", x, r.out, r.fb)

\* The caller takes the outcome of the finished operation.
Return ==
  /\ last # Idle
  /\ last' = Idle
  /\ UNCHANGED <<tname, attrs, muts>>

DoCounterpart(x) ==
  /\ tname = <<"C", "o", "l", "o", "r">>
  /\ x.t = "int"
  /\ Query("counterpart", x, Counterpart(attrs, x), 0)

Next ==
  \/ \E k \in SetNames, v \in SetValues : SetAttr(k, v)
  \/ \E k \in DelNames : DelAttr(k)
  \/ DoIter
  \/ DoLen
  \/ \E x \in Args : DoContains(x)
  \/ \E x \in Args : DoGetItem(x)
  \/ \E x \in Args : DoName(x)
  \/ \E x \in Args : DoCounterpart(x)
  \/ Return

Spec == Init /\ [][Next]_vars

(***************************************************************************)
(* Properties.  They speak of the outcome `last` of the operation just     *)
(* performed and of the attribute table it ran on.  The current members    *)
(* are characterised directly on the table, independently of Members.      *)
(***************************************************************************)
\* Positions of the table holding a current member.
MemberIdx ==
  {i \in 1..Len(attrs) : attrs[i].k[1] # "_" /\ attrs[i].v.t # "fn"}

\* Positions of the current members whose value equals x.
ValueIdx(x) == {i \in MemberIdx : attrs[i].v = x}

\* Positions of the current member named by the string x (at most one).
NameIdx(x) == {i \in MemberIdx : x = PyStr(attrs[i].k)}

\* The least element of a non-empty set of positions.
First(S) == CHOOSE i \in S : \A j \in S : i <= j

\* The display form of a declaration name, position by position.
DisplayOf(k) ==
  [i \in 1..Len(k) |->
     IF k[i] = "_" THEN " "
     ELSE IF ~IsCased(k[i]) THEN k[i]
     ELSE IF i = 1 \/ ~IsCased(k[i - 1]) THEN Upper(k[i])
     ELSE Lower(k[i])]

\* The class defines the name() override of Color.
HasOverride == \E i \in 1..Len(attrs) : attrs[i].k = <<"n", "a", "m", "e">> /\ attrs[i].v = ColorNameFn

\* The read-only operations leave the attribute table as it was.
TableUntouched ==
  (last'.op \in {"iter", "len", "contains", "getitem", "name", "counterpart"})
    => attrs' = attrs

\* C1: `x in T` is true exactly when x equals the value of a current member.
C1_ContainsIffValue ==
  last.op = "contains" => last.out = Ret(PyBool(ValueIdx(last.arg) # {}))

\* C2: len(T) is the number of current members of the table as it is now;
\* Color with YELLOW = 5 added has length 8, and 7 once NICE_ONE is deleted.
ColorPlusYellow == Append(ColorAttrs, [k |-> <<"Y", "E", "L", "L", "O", "W">>, v |-> PyInt(5)])

ColorRainbow == SelectSeq(ColorPlusYellow, LAMBDA e : e.k # <<"N", "I", "C", "E", "_", "O", "N", "E">>)

C2_LenIsMemberCount ==
  last.op = "len" =>
    /\ last.out = Ret(PyInt(Cardinality(MemberIdx)))
    /\ attrs = ColorAttrs => last.out = Ret(PyInt(7))
    /\ attrs = ColorPlusYellow => last.out = Ret(PyInt(8))
    /\ attrs = ColorRainbow => last.out = Ret(PyInt(7))

C2_Witness ==
  /\ last.op = "len"
  /\ muts = 2
  /\ attrs = ColorRainbow
  /\ last.out = Ret(PyInt(7))

\* C3: iteration yields the values of the current members, one per member
\* (a shared value once per member), in ascending order of value.
C3_IterSortedValues ==
  (last.op = "iter" /\ \A i, j \in MemberIdx : attrs[i].v.t = attrs[j].v.t) =>
    /\ last.out.kind = "return"
    /\ last.out.val.t = "list"
    /\ LET l == last.out.val.l
       IN /\ Len(l) = Cardinality(MemberIdx)
          /\ \A i \in MemberIdx :
               Cardinality({j \in 1..Len(l) : l[j] = attrs[i].v})
                 = Cardinality(ValueIdx(attrs[i].v))
          /\ \A i, j \in 1..Len(l) : Less(l[i], l[j]) => i < j

C3_Witness ==
  /\ last.op = "iter"
  /\ last.out.kind = "return"
  /\ tname = <<"C", "o", "l", "o", "r">>
  /\ \E i \in 1..Len(last.out.val.l) - 1 :
       last.out.val.l[i] = last.out.val.l[i + 1]
  /\ \E i, j \in MemberIdx : i < j /\ Less(attrs[j].v, attrs[i].v)

\* C4: for every current member K with value V, name(V) and name("K")
\* return the same string.
C4_RoundTrip ==
  last.op = "name" =>
    \A i \in ValueIdx(last.arg) :
      last.out = ClsName(attrs, tname, PyStr(attrs[i].k), 0).out

\* C5: with the override of Color in place (custom strings for the values
\* of BLACK and WHITE), name(x) is the custom string when x is one of those
\* values or the declaration name of a member having one of them, and the
\* default display name for every other member value or member name.
CustomOf(v) ==
  IF v = GetAttr(attrs, <<"B", "L", "A", "C", "K">>)
  THEN PyStr(<<"i", "s", " ", "b", "a", "c", "k", "!">>) ELSE PyStr(<<"D", "e", "l", "i", "g", "h", "t">>)

CustomValues ==
  {GetAttr(attrs, <<"B", "L", "A", "C", "K">>), GetAttr(attrs, <<"W", "H", "I", "T", "E">>)}

DefaultOf(v) == PyStr(DisplayOf(attrs[First(ValueIdx(v))].k))

C5_OverrideLaw ==
  (/\ last.op = "name"
   /\ HasOverride
   /\ NameIdx(PyStr(<<"B", "L", "A", "C", "K">>)) # {}
   /\ NameIdx(PyStr(<<"W", "H", "I", "T", "E">>)) # {}) =>
    /\ last.arg \in CustomValues => last.out = Ret(CustomOf(last.arg))
    /\ \A i \in NameIdx(last.arg) :
         last.out = Ret(IF attrs[i].v \in CustomValues
                        THEN CustomOf(attrs[i].v)
                        ELSE DefaultOf(attrs[i].v))
    /\ (ValueIdx(last.arg) # {} /\ last.arg \notin CustomValues
        /\ NameIdx(last.arg) = {}) =>
         last.out = Ret(DefaultOf(last.arg))

\* The outcome of T[k]: the bound value for the name of a current member,
\* the AttributeError naming the type and k for every other k.
C6_State ==
  last.op = "getitem" =>
    IF NameIdx(last.arg) # {}
    THEN last.out = Ret(attrs[First(NameIdx(last.arg))].v)
    ELSE last.out = Raise("AttributeError", AttrMsg(tname, last.arg))

\* C6: T[k] returns the value bound to k exactly when k is the name of a
\* current member; for every other k it raises the AttributeError naming
\* the type and k, and the attribute table is unchanged either way.
C6_IndexedLookup == [](C6_State) /\ [][TableUntouched]_vars

C6_Witness ==
  /\ last.op = "getitem"
  /\ last.arg = PyStr(<<"n", "a", "m", "e">>)
  /\ HasOverride
  /\ last.out.kind = "AttributeError"

\* The outcome of name(x) for an x matching no member value and no member
\* name: the AttributeError carrying the type name and x.
C7_State ==
  (/\ last.op = "name"
   /\ ValueIdx(last.arg) = {}
   /\ NameIdx(last.arg) = {}) =>
    last.out = Raise("AttributeError", AttrMsg(tname, last.arg))

\* C7: name(x) of an x that equals no current member value and is no current
\* member name raises the AttributeError carrying the type name and x, also
\* for the falsy x 0 and '', and the attribute table is unchanged.
C7_UnmatchedRaises == [](C7_State) /\ [][TableUntouched]_vars

C7_Witness ==
  /\ last.op = "name"
  /\ last.arg = PyInt(0)
  /\ ValueIdx(last.arg) = {}
  /\ last.out.kind = "AttributeError"

\* C8: the default name(v) of a value v held by at least one current member
\* is the display form of the earliest such member in the current order of
\* the attribute table.
C8_FirstMatchDisplay ==
  (/\ last.op = "name"
   /\ ValueIdx(last.arg) # {}
   /\ HasOverride => last.arg \notin CustomValues) =>
    /\ last.out = Ret(DefaultOf(last.arg))
    /\ attrs[First(ValueIdx(last.arg))].k = <<"A", "N", "_", "O", "R", "D", "I", "N", "A", "R", "Y", "_", "M", "E", "M", "B", "E", "R">> =>
         last.out = Ret(PyStr(<<"A", "n", " ", "O", "r", "d", "i", "n", "a", "r", "y", " ", "M", "e", "m", "b", "e", "r">>))

C8_Witness ==
  /\ last.op = "name"
  /\ ~HasOverride
  /\ Cardinality(ValueIdx(last.arg)) > 1
  /\ muts = 2
  /\ last.out.kind = "return"

\* C9: the error of a failed T[k] and the error of a failed name(x) can be
\* told apart by their payload.
C9_ModesDistinguishable ==
  (last.op = "name" /\ last.out.kind = "AttributeError") =>
    \A k \in Args :
      GetItem(attrs, tname, k).kind = "AttributeError" =>
        GetItem(attrs, tname, k) # last.out

\* C10: name(x) returns or raises after reaching the keyed fallback at most
\* once; a fallback that goes on resolves the name of a current member.
C10_BoundedFallback ==
  last.op = "name" =>
    /\ last.fb <= 1
    /\ last.out.kind \in {"return", "AttributeError"}
    /\ (last.fb = 1 /\ last.out.kind = "return") => NameIdx(last.arg) # {}

C10_Witness ==
  /\ last.op = "name"
  /\ HasOverride
  /\ last.fb = 1
  /\ last.arg = PyStr(<<"W", "H", "I", "T", "E">>)
  /\ last.out = Ret(PyStr(<<"D", "e", "l", "i", "g", "h", "t">>))

====
